---------------------------- MODULE Spec2Model ----------------------------
(***************************************************************************)
(* CynVoice: a Home Assistant integration that relays speech audio from a  *)
(* remote text-to-speech HTTP service.                                     *)
(*                                                                         *)
(*   custom_components/cynvoice/__init__.py   speak service handler and    *)
(*                                            the tts_stream HTTP view     *)
(*   custom_components/cynvoice/tts.py        the TTS entity               *)
(*   custom_components/cynvoice/cynvoice_engine.py   the engine            *)
(*   custom_components/cynvoice/const.py      defaults                     *)
(*                                                                         *)
(* Numbers: Python floats are modelled as fixed-point integers with        *)
(* Decimals fractional digits (0.95 is 95 * 10^(Decimals-2)).  Strings     *)
(* that are parsed or formatted are sequences of one-character strings.    *)
(***************************************************************************)
EXTENDS Integers, Sequences, FiniteSets, TLC

VARIABLES
    pc,         \* per GET: the await the handler is suspended at
    query,      \* per GET: request.rel_url.query, a dict of strings
    req,        \* per GET: the parameters parsed from the query string
    prepared,   \* per GET: resp.prepare() has sent "200 OK" and the headers
    upstream,   \* per GET: the channel async_stream_tts returned (0: none)
    chunk,      \* per GET: the handler's local variable chunk
    sink,       \* per GET: what resp.write() has put on the client connection
    eofs,       \* per GET: number of completed resp.write_eof()
    result,     \* per GET: what get() returned
    error,      \* per GET: the exception caught at `except Exception as err`
    chan,       \* the upstream response channels, by id
    nextChan,   \* id of the next channel the HTTP client opens
    posted,     \* per GET: endpoint and JSON payload of the upstream POST
    entry,      \* the config entry: its options and data dicts
    engine,     \* the CynVoiceEngine the TTS entity holds
    tts,        \* the entity's async_get_tts_audio call
    speak,      \* the speak service call
    gen         \* an async_get_tts_stream generator and what it has yielded

relayVars == <<pc, query, req, prepared, upstream, chunk, sink, eofs, result,
               error, chan, nextChan, posted>>

relayLocals == <<pc, query, req, prepared, upstream, chunk, sink, eofs,
                 result, error, posted>>

hostVars == <<entry, engine, tts, speak, gen>>

vars == <<relayVars, hostVars>>

----------------------------------------------------------------------------
(* Bounds *)

\* Longest upstream body, in chunks as iter_chunked() yields them.
MaxChunks == 3

\* Longest upstream body when two requests run concurrently.
MaxChunksConcurrent == 2

\* Longest audio body of a buffered response, in bytes.
MaxBody == 2

\* Longest query-string value that is parsed.
MaxLen == 3

\* Fractional digits kept by the fixed-point representation of floats.
Decimals == 3

\* The concurrent GET requests.
Relays == {1, 2}

\* Chunk payloads; 0 stands for the empty bytes object b"".
ChunkData == {0, 1, 2}

----------------------------------------------------------------------------
(* const.py *)

RECURSIVE Pow10(_)
Pow10(n) == IF n = 0 THEN 1 ELSE 10 * Pow10(n - 1)

Scale == Pow10(Decimals)

DEFAULT_VOICE == <<"c", "y", "n", "2">>
DEFAULT_URL == <<"h", "t", "t", "p", ":", "d">>
DEFAULT_TEMPERATURE == (95 * Scale) \div 100
DEFAULT_REPETITION_PENALTY == (11 * Scale) \div 10
DEFAULT_STREAMING == FALSE

----------------------------------------------------------------------------
(* Python built-ins used by the handlers *)

DigitChars == <<"0", "1", "2", "3", "4", "5", "6", "7", "8", "9">>

Digits == {DigitChars[i] : i \in 1..10}

DigitVal(c) == (CHOOSE i \in 1..10 : DigitChars[i] = c) - 1

\* dict.get(key, default)
DictGet(d, key, default) == IF key \in DOMAIN d THEN d[key] ELSE default

\* bool(x) of a str
Truthy(s) == Len(s) > 0

RECURSIVE DigitsValue(_)
DigitsValue(s) ==
    IF Len(s) = 0 THEN 0
    ELSE 10 * DigitsValue(SubSeq(s, 1, Len(s) - 1)) + DigitVal(s[Len(s)])

AllDigits(s) == \A i \in 1..Len(s) : s[i] \in Digits

DotAt(s) == {i \in 1..Len(s) : s[i] = "."}

\* float(s) of a str: digits with at most one ".", at least one digit;
\* anything else raises ValueError.  [ok |-> FALSE] is the raise.
ToFloat(s) ==
    IF Len(s) > 0 /\ AllDigits(s)
    THEN [ok |-> TRUE, val |-> DigitsValue(s) * Scale]
    ELSE IF Cardinality(DotAt(s)) = 1
    THEN LET d == CHOOSE i \in DotAt(s) : TRUE
             ip == SubSeq(s, 1, d - 1)
             fp == SubSeq(s, d + 1, Len(s))
         IN IF AllDigits(ip) /\ AllDigits(fp) /\ Len(ip) + Len(fp) > 0
            THEN [ok |-> TRUE,
                  val |-> DigitsValue(ip) * Scale
                          + (DigitsValue(fp) * Scale) \div Pow10(Len(fp))]
            ELSE [ok |-> FALSE, val |-> 0]
    ELSE [ok |-> FALSE, val |-> 0]

----------------------------------------------------------------------------
(* urllib.parse.unquote, as the view applies it to the text parameter *)

\* The hexadecimal digits that occur in the strings of this model.
HexDigits == {"2", "3", "5", "A"}

\* The character a two-digit escape names; a byte above 0x7F on its own is
\* no UTF-8 and decodes to the replacement character.
HexChar(a, b) ==
    CASE a = "2" /\ b = "2" -> "\""
      [] a = "2" /\ b = "3" -> "#"
      [] a = "2" /\ b = "5" -> "%"
      [] a = "2" /\ b = "A" -> "*"
      [] a = "3" /\ b = "2" -> "2"
      [] a = "3" /\ b = "3" -> "3"
      [] a = "3" /\ b = "5" -> "5"
      [] a = "3" /\ b = "A" -> ":"
      [] a = "5" /\ b = "2" -> "R"
      [] a = "5" /\ b = "3" -> "S"
      [] a = "5" /\ b = "5" -> "U"
      [] a = "5" /\ b = "A" -> "Z"
      [] a = "A" -> "U+FFFD"

RECURSIVE unquote(_)
unquote(s) ==
    IF Len(s) = 0 THEN <<>>
    ELSE IF /\ s[1] = "%"
            /\ Len(s) >= 3
            /\ s[2] \in HexDigits
            /\ s[3] \in HexDigits
         THEN <<HexChar(s[2], s[3])>> \o unquote(SubSeq(s, 4, Len(s)))
         ELSE <<s[1]>> \o unquote(Tail(s))

\* urllib.parse.quote with its default safe="/": letters, digits and
\* "_.-~/" are kept, every other character is escaped.
QuoteChar(c) ==
    CASE c = "%" -> <<"%", "2", "5">>
      [] c = ":" -> <<"%", "3", "A">>
      [] c = "\"" -> <<"%", "2", "2">>
      [] c = "#" -> <<"%", "2", "3">>
      [] c = "*" -> <<"%", "2", "A">>
      [] OTHER -> <<c>>

RECURSIVE quote(_)
quote(s) == IF Len(s) = 0 THEN <<>> ELSE QuoteChar(s[1]) \o quote(Tail(s))

\* str(x) of a float, as an f-string formats it: the integer part, ".",
\* and the fraction without trailing zeros.
RECURSIVE IntDigits(_)
IntDigits(n) ==
    IF n < 10 THEN <<DigitChars[n + 1]>>
    ELSE IntDigits(n \div 10) \o <<DigitChars[(n % 10) + 1]>>

RECURSIVE PadDigits(_, _)
PadDigits(n, w) ==
    IF w = 0 THEN <<>>
    ELSE PadDigits(n \div 10, w - 1) \o <<DigitChars[(n % 10) + 1]>>

RECURSIVE StripZeros(_)
StripZeros(s) ==
    IF Len(s) > 1 /\ s[Len(s)] = "0"
    THEN StripZeros(SubSeq(s, 1, Len(s) - 1))
    ELSE s

FormatFloat(v) ==
    IntDigits(v \div Scale) \o <<".">>
        \o StripZeros(PadDigits(v % Scale, Decimals))

\* The query string as the HTTP server hands it to the view: every value
\* percent-decoded once.
TransportDecode(q) == [k \in DOMAIN q |-> unquote(q[k])]

----------------------------------------------------------------------------
(* CynVoiceStreamView.get: the query parameters *)

\* try: float(params.get(key, default)) / except Exception: default.
\* raised says whether an exception leaves the try statement.
TryFloatNoExcept(params, key, default) ==
    IF key \in DOMAIN params
    THEN LET f == ToFloat(params[key])
         IN [raised |-> ~f.ok, val |-> f.val]
    ELSE [raised |-> FALSE, val |-> default]

TryFloat(params, key, default) ==
    IF key \in DOMAIN params
    THEN LET f == ToFloat(params[key])
         IN [raised |-> FALSE, val |-> IF f.ok THEN f.val ELSE default]
    ELSE [raised |-> FALSE, val |-> default]

\* params.get(key) or default
GetOr(params, key, default) ==
    IF key \in DOMAIN params /\ Truthy(params[key])
    THEN params[key]
    ELSE default

NoRequest ==
    [text |-> <<>>, voice |-> <<>>, temperature |-> 0,
     repetition_penalty |-> 0, api_url |-> <<>>]

ParseQuery(params) ==
    LET t == TryFloat(params, "temperature", DEFAULT_TEMPERATURE)
        p == TryFloat(params, "repetition_penalty", DEFAULT_REPETITION_PENALTY)
    IN [raised |-> t.raised \/ p.raised,
        request |->
            [text |-> unquote(DictGet(params, "text", <<>>)),
             voice |-> GetOr(params, "voice", DEFAULT_VOICE),
             temperature |-> t.val,
             repetition_penalty |-> p.val,
             api_url |-> GetOr(params, "api_url", DEFAULT_URL)]]

\* The query strings the concurrent relays are driven with.
SampleQueries ==
    { [text |-> <<"h", "i">>],
      [text |-> <<"%", "2", "5">>, voice |-> <<"v">>,
       temperature |-> <<"x">>, repetition_penalty |-> <<"1", ".", "5">>,
       api_url |-> <<"u">>] }

----------------------------------------------------------------------------
(* The upstream synthesis endpoint and its response channels *)

RECURSIVE SeqsUpTo(_, _)
SeqsUpTo(S, n) ==
    IF n = 0 THEN {<<>>}
    ELSE LET shorter == SeqsUpTo(S, n - 1)
         IN shorter \cup {Append(q, x) : q \in shorter, x \in S}

\* The bodies an upstream response can deliver, chunk by chunk.
Bodies(n) == SeqsUpTo(ChunkData, n)

\* How the POST, or a later read of the body, fails.
UpstreamErrors == {"connect", "status", "timeout"}

NoChannel == [state |-> "unused", body |-> <<>>, pos |-> 0, closes |-> 0]

\* One channel per GET and one for the generator.
ChanIds == 1..(Cardinality(Relays) + 1)

\* A fresh response whose body is b; each chunk carries the id of the
\* response it belongs to.
OpenChannel(c, b) ==
    [state |-> "open",
     body |-> [i \in 1..Len(b) |-> [src |-> c, data |-> b[i]]],
     pos |-> 0,
     closes |-> 0]

\* What is left of the body of channel c.
AtEnd(ch, c) == ch[c].pos = Len(ch[c].body)

NextChunk(ch, c) == ch[c].body[ch[c].pos + 1]

\* upstream.close()
Close(ch, c) ==
    [ch EXCEPT ![c].state = "closed", ![c].closes = @ + 1]

\* The JSON payload of the streaming POST.
StreamPayload(text, voice, temperature, repetition_penalty) ==
    [text |-> text,
     chunk_length |-> 200,
     format |-> "wav",
     references |-> <<>>,
     reference_id |-> voice,
     seed |-> "null",
     use_memory_cache |-> "off",
     normalize |-> TRUE,
     streaming |-> TRUE,
     max_new_tokens |-> 1024,
     top_p |-> 8 * (Scale \div 10),
     repetition_penalty |-> repetition_penalty,
     temperature |-> temperature]

NoPost == [url |-> <<>>, json |-> StreamPayload(<<>>, <<>>, 0, 0)]

----------------------------------------------------------------------------
(* The config entry, the TTS entity and the speak service call *)

\* A dict without keys.
NoDict == <<>>

NoEngine ==
    [built |-> FALSE, url |-> <<>>, voice |-> <<>>, temperature |-> 0,
     repetition_penalty |-> 0, streaming |-> FALSE]

NoOutcome == [kind |-> "none", status |-> 0, body |-> <<>>, received |-> 0]

\* async_get_tts_audio returns None
None == [ok |-> FALSE, ext |-> "", data |-> <<>>]

NoTts ==
    [pc |-> "idle", options |-> NoDict, streaming |-> FALSE,
     posted |-> NoPost, outcome |-> NoOutcome, result |-> None]

NoSpeak == [pc |-> "idle", message |-> <<>>, data |-> NoDict, url |-> NoDict]

NoGen ==
    [pc |-> "idle", chan |-> 0, out |-> <<>>, posted |-> NoPost,
     result |-> "none"]

InitHost(entries) ==
    /\ entry \in entries
    /\ engine = NoEngine
    /\ tts = NoTts
    /\ speak = NoSpeak
    /\ gen = NoGen

----------------------------------------------------------------------------
(* CynVoiceStreamView.get, one action per await *)

InitRelay ==
    /\ pc = [r \in Relays |-> "idle"]
    /\ query = [r \in Relays |-> <<>>]
    /\ req = [r \in Relays |-> NoRequest]
    /\ prepared = [r \in Relays |-> FALSE]
    /\ upstream = [r \in Relays |-> 0]
    /\ chunk = [r \in Relays |-> [src |-> 0, data |-> 0]]
    /\ sink = [r \in Relays |-> <<>>]
    /\ eofs = [r \in Relays |-> 0]
    /\ result = [r \in Relays |-> "none"]
    /\ error = [r \in Relays |-> "none"]
    /\ chan = [c \in ChanIds |-> NoChannel]
    /\ nextChan = 1
    /\ posted = [r \in Relays |-> NoPost]

\* The channel the handler's local variable upstream refers to.
UpstreamOfShared(r) == nextChan - 1

UpstreamOf(r) == upstream[r]

\* resp.write(chunk) on a connected client
WriteReversed(s, c) == <<c>> \o s

Write(s, c) == Append(s, c)

\* finally: upstream.close()
FinallyNoClose(ch, c) == ch

Finally(ch, c) == Close(ch, c)

\* except Exception as err: log, return web.Response(status=500)
Except(r, e) ==
    /\ error' = [error EXCEPT ![r] = e]
    /\ result' = [result EXCEPT ![r] = "Response500"]
    /\ pc' = [pc EXCEPT ![r] = "done"]

\* An exception raised inside the inner try: the finally clause, then the
\* except clause.
RaiseInLoopContinue(r, e) ==
    /\ chan' = chan
    /\ error' = [error EXCEPT ![r] = e]
    /\ result' = result
    /\ pc' = [pc EXCEPT ![r] = "read"]

RaiseInLoop(r, e) ==
    /\ chan' = Finally(chan, UpstreamOf(r))
    /\ Except(r, e)

\* Lines 109-142: parse the query, build the engine and the StreamResponse,
\* start resp.prepare(request).
GetWith(r, queries) ==
    /\ pc[r] = "idle"
    /\ \E params \in queries :
        LET q == ParseQuery(params)
        IN /\ query' = [query EXCEPT ![r] = params]
           /\ IF q.raised
              THEN /\ pc' = [pc EXCEPT ![r] = "done"]
                   /\ result' = [result EXCEPT ![r] = "raised"]
                   /\ req' = req
              ELSE /\ pc' = [pc EXCEPT ![r] = "prepare"]
                   /\ req' = [req EXCEPT ![r] = q.request]
                   /\ result' = result
    /\ UNCHANGED <<prepared, upstream, chunk, sink, eofs, error, chan, nextChan, posted>>

\* Line 142 completes: status 200 and the headers are on the wire.  The
\* handler enters the try statement and awaits engine.async_stream_tts().
Prepare(r) ==
    /\ pc[r] = "prepare"
    /\ prepared' = [prepared EXCEPT ![r] = TRUE]
    /\ pc' = [pc EXCEPT ![r] = "post"]
    /\ posted' = [posted EXCEPT ![r] =
            [url |-> req[r].api_url,
             json |-> StreamPayload(req[r].text, req[r].voice,
                                    req[r].temperature,
                                    req[r].repetition_penalty)]]
    /\ UNCHANGED <<query, req, upstream, chunk, sink, eofs, result, error, chan,
                   nextChan>>

\* async_stream_tts returns an open response; the handler starts iterating.
PostOk(r, bodies) ==
    /\ pc[r] = "post"
    /\ \E b \in bodies :
        chan' = [chan EXCEPT ![nextChan] = OpenChannel(nextChan, b)]
    /\ upstream' = [upstream EXCEPT ![r] = nextChan]
    /\ nextChan' = nextChan + 1
    /\ pc' = [pc EXCEPT ![r] = "read"]
    /\ UNCHANGED <<query, req, prepared, chunk, sink, eofs, result, error, posted>>

\* async_stream_tts raises: no channel is handed to the handler.
PostFail(r) ==
    /\ pc[r] = "post"
    /\ \E e \in UpstreamErrors : Except(r, e)
    /\ UNCHANGED <<query, req, prepared, upstream, chunk, sink, eofs, chan, nextChan, posted>>

\* iter_chunked yields the next chunk; `if chunk:` skips an empty one.
ReadChunk(r) ==
    /\ pc[r] = "read"
    /\ ~AtEnd(chan, UpstreamOf(r))
    /\ LET c == NextChunk(chan, UpstreamOf(r))
       IN /\ chunk' = [chunk EXCEPT ![r] = c]
          /\ pc' = [pc EXCEPT ![r] = IF c.data # 0 THEN "write" ELSE "read"]
    /\ chan' = [chan EXCEPT ![UpstreamOf(r)].pos = @ + 1]
    /\ UNCHANGED <<query, req, prepared, upstream, sink, eofs, result, error, nextChan, posted>>

\* iter_chunked is exhausted; the handler awaits resp.write_eof().
ReadEnd(r) ==
    /\ pc[r] = "read"
    /\ AtEnd(chan, UpstreamOf(r))
    /\ pc' = [pc EXCEPT ![r] = "eof"]
    /\ UNCHANGED <<query, req, prepared, upstream, chunk, sink, eofs, result, error,
                   chan, nextChan, posted>>

\* The read raises (connection lost, or the 60 s budget is spent).
ReadFail(r) ==
    /\ pc[r] = "read"
    /\ \E e \in {"payload", "timeout"} : RaiseInLoop(r, e)
    /\ UNCHANGED <<query, req, prepared, upstream, chunk, sink, eofs, nextChan, posted>>

\* resp.write(chunk) completes.
WriteOk(r) ==
    /\ pc[r] = "write"
    /\ sink' = [sink EXCEPT ![r] = Write(@, chunk[r])]
    /\ pc' = [pc EXCEPT ![r] = "read"]
    /\ UNCHANGED <<query, req, prepared, upstream, chunk, eofs, result, error, chan,
                   nextChan, posted>>

\* resp.write(chunk) raises: the client has gone.
WriteFail(r) ==
    /\ pc[r] = "write"
    /\ RaiseInLoop(r, "write")
    /\ UNCHANGED <<query, req, prepared, upstream, chunk, sink, eofs, nextChan, posted>>

\* resp.write_eof() completes; finally closes upstream; return resp.
WriteEofOk(r) ==
    /\ pc[r] = "eof"
    /\ eofs' = [eofs EXCEPT ![r] = @ + 1]
    /\ chan' = Finally(chan, UpstreamOf(r))
    /\ result' = [result EXCEPT ![r] = "StreamResponse200"]
    /\ pc' = [pc EXCEPT ![r] = "done"]
    /\ UNCHANGED <<query, req, prepared, upstream, chunk, sink, error, nextChan, posted>>

\* resp.write_eof() raises.
WriteEofFail(r) ==
    /\ pc[r] = "eof"
    /\ RaiseInLoop(r, "write")
    /\ UNCHANGED <<query, req, prepared, upstream, chunk, sink, eofs, nextChan, posted>>

\* One step of the invocation r, its query string drawn from queries and
\* the body of its upstream response from bodies.
Step(r, queries, bodies) ==
    /\ UNCHANGED hostVars
    /\       \/ GetWith(r, queries)
       \/ Prepare(r)
       \/ PostOk(r, bodies)
       \/ PostFail(r)
       \/ ReadChunk(r)
       \/ ReadEnd(r)
       \/ ReadFail(r)
       \/ WriteOk(r)
       \/ WriteFail(r)
       \/ WriteEofOk(r)
       \/ WriteEofFail(r)

NoEntries == {[options |-> NoDict, data |-> NoDict]}

Init == InitRelay /\ InitHost(NoEntries)

SoloBodies == Bodies(MaxChunks)

\* A single request.
Next == Step(1, SampleQueries, SoloBodies)

Spec == Init /\ [][Next]_vars

\* Two concurrent requests with identical query strings.
ConcurrentBodies == Bodies(MaxChunksConcurrent)

SameQuery == {[text |-> <<"h", "i">>]}

NextConcurrent == \E r \in Relays : Step(r, SameQuery, ConcurrentBodies)

SpecConcurrent == Init /\ [][NextConcurrent]_vars

\* The characters query-string numbers are written with.
Alphabet == {"0", "1", "5", ".", "x"}

FewValues == {<<"1", ".", "5">>, <<"x">>}

\* Query strings with every temperature value, and every repetition_penalty
\* value, of up to MaxLen characters, or without one.
ParseQueries ==
    LET all == SeqsUpTo(Alphabet, MaxLen)
    IN {[text |-> <<"h", "i">>, temperature |-> t, repetition_penalty |-> p] :
            t \in all, p \in FewValues}
       \cup {[text |-> <<"h", "i">>, temperature |-> t, repetition_penalty |-> p] :
            t \in FewValues, p \in all}
       \cup {[text |-> <<"h", "i">>, temperature |-> t] : t \in all}
       \cup {[text |-> <<"h", "i">>, repetition_penalty |-> p] : p \in all}

\* A single request with an arbitrary numeric part of the query string.
ShortBodies == Bodies(1)

NextParse == Step(1, ParseQueries, ShortBodies)

SpecParse == Init /\ [][NextParse]_vars

----------------------------------------------------------------------------
(* CynVoiceEngine.get_tts and CynVoiceEntity *)

CONF_API_URL == "url"
CONF_VOICE == "voice"
CONF_TEMPERATURE == "temperature"
CONF_REPETITION_PENALTY == "repetition_penalty"
CONF_STREAMING == "streaming"

\* The JSON payload of the buffered POST; its streaming field is the
\* literal False, whatever get_tts resolved its streaming argument to.
BufferedPayload(text, voice, temperature, repetition_penalty) ==
    [StreamPayload(text, voice, temperature, repetition_penalty)
        EXCEPT !.streaming = FALSE]

\* What urlopen() and resp.read() meet: a response with a status and a
\* body of which `received` bytes arrive before the connection ends, or no
\* response at all.
Statuses == {200, 201, 503}

AudioBytes == {1, 2}

UrlopenOutcomes(n) ==
    UNION {{[kind |-> "response", status |-> st, body |-> b, received |-> k] :
                k \in 0..Len(b)} :
            st \in Statuses, b \in SeqsUpTo(AudioBytes, n)}
    \cup {[kind |-> k, status |-> 0, body |-> <<>>, received |-> 0] :
            k \in {"connect", "timeout"}}

Delivered(o) ==
    /\ o.kind = "response"
    /\ o.status >= 200 /\ o.status < 300
    /\ o.received = Len(o.body)

\* get_tts with a read that hands back what has arrived when the
\* connection ends early.
get_tts_partial(eng, text, args, o) ==
    [posted |->
        [url |-> eng.url,
         json |-> BufferedPayload(
            text,
            DictGet(args, "voice", eng.voice),
            DictGet(args, "temperature", eng.temperature),
            DictGet(args, "repetition_penalty", eng.repetition_penalty))],
     raised |-> ~(o.kind = "response" /\ o.status >= 200 /\ o.status < 300),
     content |-> SubSeq(o.body, 1, o.received)]

\* get_tts: absent arguments (None) fall back to the engine's fields; the
\* request is POSTed; a 2xx response is read to its end and returned, and
\* every exception is re-raised as HomeAssistantError.
get_tts(eng, text, args, o) ==
    [posted |->
        [url |-> eng.url,
         json |-> BufferedPayload(
            text,
            DictGet(args, "voice", eng.voice),
            DictGet(args, "temperature", eng.temperature),
            DictGet(args, "repetition_penalty", eng.repetition_penalty))],
     raised |-> ~Delivered(o),
     content |-> IF Delivered(o) THEN o.body ELSE <<>>]

\* engine.async_get_tts: get_tts run for the event loop.
async_get_tts(eng, text, args, o) == get_tts(eng, text, args, o)

\* self._options.get(key, self._config.get(key, default))
get_option_or_config(e, key, default) ==
    DictGet(e.options, key, DictGet(e.data, key, default))

\* CynVoiceEntity.__init__
EntityInit ==
    /\ ~engine.built
    /\ engine' =
        [built |-> TRUE,
         url |-> get_option_or_config(entry, CONF_API_URL, DEFAULT_URL),
         voice |-> get_option_or_config(entry, CONF_VOICE, DEFAULT_VOICE),
         temperature |->
            get_option_or_config(entry, CONF_TEMPERATURE, DEFAULT_TEMPERATURE),
         repetition_penalty |->
            get_option_or_config(entry, CONF_REPETITION_PENALTY,
                                 DEFAULT_REPETITION_PENALTY),
         streaming |->
            get_option_or_config(entry, CONF_STREAMING, DEFAULT_STREAMING)]
    /\ UNCHANGED <<entry, tts, speak>>
    /\ UNCHANGED <<relayVars, gen>>

\* The keyword arguments async_get_tts_audio passes to the engine.
EngineArgs(eng, options) ==
    [voice |-> DictGet(options, CONF_VOICE, eng.voice),
     temperature |-> DictGet(options, CONF_TEMPERATURE, eng.temperature),
     repetition_penalty |->
        DictGet(options, CONF_REPETITION_PENALTY, eng.repetition_penalty),
     streaming |-> FALSE]

\* The streaming flag async_get_tts_audio resolves: the option of the
\* call, else the engine's configured value.
ResolvedStreaming(eng, options) ==
    DictGet(options, CONF_STREAMING, eng.streaming)

Message == <<"h", "i">>

\* async_get_tts_audio up to the await of the engine call.
async_get_tts_audio(overrides) ==
    /\ engine.built
    /\ tts.pc = "idle"
    /\ \E options \in overrides :
        tts' = [tts EXCEPT
            !.pc = "post",
            !.options = options,
            !.streaming = ResolvedStreaming(engine, options),
            !.posted = async_get_tts(engine, Message,
                                     EngineArgs(engine, options),
                                     NoOutcome).posted]
    /\ UNCHANGED <<entry, engine, speak>>
    /\ UNCHANGED <<relayVars, gen>>

\* The engine call returns or raises; async_get_tts_audio returns.
async_get_tts_audio_return(outcomes) ==
    /\ tts.pc = "post"
    /\ \E o \in outcomes :
        LET r == async_get_tts(engine, Message,
                               EngineArgs(engine, tts.options), o)
        IN tts' = [tts EXCEPT
            !.pc = "done",
            !.outcome = o,
            !.result = IF r.raised THEN None
                       ELSE [ok |-> TRUE, ext |-> "wav", data |-> r.content]]
    /\ UNCHANGED <<entry, engine, speak>>
    /\ UNCHANGED <<relayVars, gen>>

\* The values each layer of the configuration can hold.
Tenths(n) == n * (Scale \div 10)

OptionValues ==
    [url |-> <<"h", ":", "/", "o">>, voice |-> <<"o", "p", "t">>,
     temperature |-> Tenths(15), repetition_penalty |-> Tenths(13)]

ConfigValues ==
    [url |-> <<"h", ":", "/", "c">>, voice |-> <<"c", "f", "g">>,
     temperature |-> Tenths(19), repetition_penalty |-> Tenths(14)]

\* Every dict that holds vals[k] for some of the keys of vals.
Dicts(vals) == {[k \in K |-> vals[k]] : K \in SUBSET DOMAIN vals}

Entries == {[options |-> o, data |-> d] :
                o \in Dicts(OptionValues), d \in Dicts(ConfigValues)}

\* Explicit overrides: absent, falsy, or an ordinary value.
Overrides ==
    UNION {Dicts([voice |-> v, temperature |-> t, repetition_penalty |-> p]) :
            v \in {<<>>, <<"o", "v", "r">>},
            t \in {0, Tenths(5)},
            p \in {0, Tenths(12)}}

BufferedOutcomes == UrlopenOutcomes(MaxBody)

----------------------------------------------------------------------------
(* CynVoiceEngine.async_get_tts_stream, an async generator *)

\* Leaving `async with session.post(...) as response` releases the response.
ExitResponse(ch, c) == Close(ch, c)

genOthers == <<relayLocals, entry, engine, tts, speak>>

\* The first __anext__: the payload is built and the POST is sent.
async_get_tts_stream(argsets) ==
    /\ engine.built
    /\ gen.pc = "idle"
    /\ \E args \in argsets :
        gen' = [gen EXCEPT
            !.pc = "post",
            !.posted =
                [url |-> engine.url,
                 json |-> StreamPayload(
                    Message,
                    DictGet(args, "voice", engine.voice),
                    DictGet(args, "temperature", engine.temperature),
                    DictGet(args, "repetition_penalty",
                            engine.repetition_penalty))]]
    /\ UNCHANGED <<chan, nextChan>>
    /\ UNCHANGED genOthers

\* A 2xx response: raise_for_status() passes, the loop starts reading.
GenPostOk(bodies) ==
    /\ gen.pc = "post"
    /\ \E b \in bodies :
        chan' = [chan EXCEPT ![nextChan] = OpenChannel(nextChan, b)]
    /\ nextChan' = nextChan + 1
    /\ gen' = [gen EXCEPT !.pc = "read", !.chan = nextChan]
    /\ UNCHANGED genOthers

\* A non-2xx response: raise_for_status() raises inside the with block.
GenPostStatus ==
    /\ gen.pc = "post"
    /\ chan' = ExitResponse(
            [chan EXCEPT ![nextChan] = OpenChannel(nextChan, <<>>)], nextChan)
    /\ nextChan' = nextChan + 1
    /\ gen' = [gen EXCEPT !.pc = "done", !.chan = nextChan,
                           !.result = "raised"]
    /\ UNCHANGED genOthers

\* No response: connection error or timeout.
GenPostFail ==
    /\ gen.pc = "post"
    /\ gen' = [gen EXCEPT !.pc = "done", !.result = "raised"]
    /\ UNCHANGED <<chan, nextChan>>
    /\ UNCHANGED genOthers

\* The next chunk: a non-empty one is yielded to the consumer.
GenRead ==
    /\ gen.pc = "read"
    /\ ~AtEnd(chan, gen.chan)
    /\ LET c == NextChunk(chan, gen.chan)
       IN gen' = IF c.data # 0
                 THEN [gen EXCEPT !.pc = "yielded", !.out = Append(@, c)]
                 ELSE gen
    /\ chan' = [chan EXCEPT ![gen.chan].pos = @ + 1]
    /\ UNCHANGED nextChan
    /\ UNCHANGED genOthers

\* The body is exhausted: the with blocks are left, the generator ends.
GenReadEnd ==
    /\ gen.pc = "read"
    /\ AtEnd(chan, gen.chan)
    /\ chan' = ExitResponse(chan, gen.chan)
    /\ gen' = [gen EXCEPT !.pc = "done", !.result = "exhausted"]
    /\ UNCHANGED nextChan
    /\ UNCHANGED genOthers

\* The read raises: the with block is left, HomeAssistantError is raised.
GenReadFail ==
    /\ gen.pc = "read"
    /\ chan' = ExitResponse(chan, gen.chan)
    /\ gen' = [gen EXCEPT !.pc = "done", !.result = "raised"]
    /\ UNCHANGED nextChan
    /\ UNCHANGED genOthers

\* The consumer asks for the next chunk.
GenNext ==
    /\ gen.pc = "yielded"
    /\ gen' = [gen EXCEPT !.pc = "read"]
    /\ UNCHANGED <<chan, nextChan>>
    /\ UNCHANGED genOthers

\* The consumer closes the generator: GeneratorExit is raised at the yield
\* and leaves the with block; `except Exception` does not catch it.
GenClose ==
    /\ gen.pc = "yielded"
    /\ chan' = ExitResponse(chan, gen.chan)
    /\ gen' = [gen EXCEPT !.pc = "done", !.result = "closed"]
    /\ UNCHANGED nextChan
    /\ UNCHANGED genOthers

StreamArgs ==
    {NoDict, [voice |-> <<"o", "v", "r">>, temperature |-> Tenths(5)]}

\* One GET on the view and one generator of the entity's engine.
NextStreams ==
    \/ Step(1, SameQuery, ConcurrentBodies)
    \/ EntityInit
    \/ async_get_tts_stream(StreamArgs)
    \/ GenPostOk(ConcurrentBodies)
    \/ GenPostStatus
    \/ GenPostFail
    \/ GenRead
    \/ GenReadEnd
    \/ GenReadFail
    \/ GenNext
    \/ GenClose

SpecStreams == Init /\ [][NextStreams]_vars

----------------------------------------------------------------------------
(* async_service_handle, the speak service *)

\* service.data.get(key) or default, for a float: None and 0.0 are falsy.
FloatOr(data, key, default) ==
    IF key \in DOMAIN data /\ data[key] # 0 THEN data[key] ELSE default

\* The handler builds the stream URL and hands it to media_player.play_media.
async_service_handle(messages, overrides) ==
    /\ speak.pc = "idle"
    /\ \E message \in messages, data \in overrides :
        LET voice ==
                GetOr(data, "voice",
                       DictGet(entry.options, CONF_VOICE, DEFAULT_VOICE))
            temperature ==
                FloatOr(data, "temperature",
                       DictGet(entry.options, CONF_TEMPERATURE,
                               DEFAULT_TEMPERATURE))
            repetition_penalty ==
                FloatOr(data, "repetition_penalty",
                       DictGet(entry.options, CONF_REPETITION_PENALTY,
                               DEFAULT_REPETITION_PENALTY))
            api_url ==
                DictGet(entry.options, CONF_API_URL,
                        DictGet(entry.data, CONF_API_URL, DEFAULT_URL))
        IN speak' =
            [pc |-> "called",
             message |-> message,
             data |-> data,
             url |-> [text |-> quote(message),
                      voice |-> quote(voice),
                      temperature |-> FormatFloat(temperature),
                      repetition_penalty |-> FormatFloat(repetition_penalty),
                      api_url |-> quote(api_url)]]
    /\ UNCHANGED <<entry, engine, tts>>
    /\ UNCHANGED <<relayVars, gen>>

\* The media player fetches the stream URL: one GET on the view.
PlayerFetch(bodies) ==
    /\ speak.pc = "called"
    /\ Step(1, {TransportDecode(speak.url)}, bodies)

SpeakMessages == {Message}

InitSpeak == InitRelay /\ InitHost(Entries)

NextSpeak ==
    \/ async_service_handle(SpeakMessages, Overrides)
    \/ PlayerFetch(ShortBodies)

SpecSpeak == InitSpeak /\ [][NextSpeak]_vars

\* Messages with and without percent-escape sequences, the empty one
\* included.
TextAlphabet == {"%", "2", "5", "h"}

TextMessages == SeqsUpTo(TextAlphabet, MaxLen)

NoOverrides == {NoDict}

\* The speak service called with any of these messages, and the player's
\* GET of the stream URL.
NextText ==
    \/ async_service_handle(TextMessages, NoOverrides)
    \/ PlayerFetch(ShortBodies)

SpecText == Init /\ [][NextText]_vars

InitEntity == InitRelay /\ InitHost(Entries)

NextEntity ==
    \/ EntityInit
    \/ async_get_tts_audio(Overrides)
    \/ async_get_tts_audio_return(BufferedOutcomes)

SpecEntity == InitEntity /\ [][NextEntity]_vars

----------------------------------------------------------------------------
(* The streaming flag on the buffered and on the streaming path *)

\* A dict that holds the streaming flag, or does not.
StreamingDicts ==
    Dicts([streaming |-> TRUE]) \cup Dicts([streaming |-> FALSE])

StreamingEntries ==
    {[options |-> o, data |-> d] : o \in StreamingDicts, d \in StreamingDicts}

ShortOutcomes == UrlopenOutcomes(1)

InitPayload == InitRelay /\ InitHost(StreamingEntries)

\* The entity's buffered call, the engine's generator and one GET on the
\* view, on an entry that may configure the streaming flag.
NextPayload ==
    \/ EntityInit
    \/ async_get_tts_audio(StreamingDicts)
    \/ async_get_tts_audio_return(ShortOutcomes)
    \/ async_get_tts_stream(StreamArgs)
    \/ GenPostFail
    \/ Step(1, SameQuery, ShortBodies)

SpecPayload == InitPayload /\ [][NextPayload]_vars

----------------------------------------------------------------------------
(* Properties of the streaming relay *)

\* The status line the client has received: resp.prepare() commits 200
\* before anything else can be sent on the connection.
ClientStatus(r) ==
    IF prepared[r] THEN 200
    ELSE IF result[r] = "Response500" THEN 500
    ELSE 0

NonEmpty(c) == c.data # 0

\* The chunks of channel c read so far that the handler forwards.
Forwardable(c) == SelectSeq(SubSeq(chan[c].body, 1, chan[c].pos), NonEmpty)

\* C1: when the upstream POST fails before any byte was forwarded, the
\* downstream response has not been prepared.
C1_NoCommitOnUpstreamFailure ==
    \A r \in Relays :
        (pc[r] = "done" /\ upstream[r] = 0 /\ error[r] \in UpstreamErrors)
            => ~prepared[r]

\* C2: a relay (the view's GET, or the engine's generator) that has
\* returned or raised has no upstream channel still open, and every open
\* channel belongs to a relay that is still running.
C2_UpstreamClosedOnExit ==
    /\ \A r \in Relays :
        (pc[r] = "done" /\ upstream[r] # 0)
            => chan[upstream[r]].state = "closed"
    /\ (gen.pc = "done" /\ gen.chan # 0) => chan[gen.chan].state = "closed"
    /\ \A c \in ChanIds :
        chan[c].state = "open"
            => \/ \E r \in Relays : upstream[r] = c /\ pc[r] # "done"
               \/ gen.chan = c /\ gen.pc # "done"

C2_Witness ==
    /\ \E r \in Relays :
        /\ pc[r] = "done"
        /\ upstream[r] # 0
        /\ error[r] = "timeout"
        /\ Len(sink[r]) = 1
        /\ ~AtEnd(chan, upstream[r])
    /\ gen.pc = "done"
    /\ gen.result = "closed"
    /\ Len(gen.out) = 1
    /\ ~AtEnd(chan, gen.chan)

\* C3: with a healthy sink the non-empty chunks reach the sink in receipt
\* order, each written before the next is read; after the last one the
\* end of stream is signalled once and the channel is closed once.
C3_ForwardInOrder ==
    \A r \in Relays :
        upstream[r] # 0 =>
            LET c == upstream[r]
            IN /\ pc[r] = "write" => Forwardable(c) = Append(sink[r], chunk[r])
               /\ pc[r] \in {"read", "eof"} => Forwardable(c) = sink[r]
               /\ pc[r] # "done" => eofs[r] = 0 /\ chan[c].closes = 0
               /\ result[r] = "StreamResponse200" =>
                    /\ sink[r] = SelectSeq(chan[c].body, NonEmpty)
                    /\ eofs[r] = 1
                    /\ chan[c].closes = 1

C3_Witness ==
    \E r \in Relays :
        /\ result[r] = "StreamResponse200"
        /\ Len(sink[r]) = 3
        /\ sink[r][1].data # sink[r][2].data

\* C4: after a failed write to the sink the relay has returned (it has not
\* raised), its upstream channel is closed, and nothing more is read from
\* the channel or written to the sink.
C4_StopOnWriteFailure ==
    /\ [](\A r \in Relays :
            error[r] = "write" =>
                /\ pc[r] = "done"
                /\ result[r] = "Response500"
                /\ chan[upstream[r]].state = "closed")
    /\ [][\A r \in Relays :
            error[r] = "write" =>
                /\ chan'[upstream[r]].pos = chan[upstream[r]].pos
                /\ sink'[r] = sink[r]]_vars

C4_Witness ==
    \E r \in Relays :
        /\ error[r] = "write"
        /\ Len(sink[r]) = 1
        /\ chan[upstream[r]].pos < Len(chan[upstream[r]].body)

\* C5: a request whose relay failed is answered with status 500.
C5_FailureAnswered500 ==
    \A r \in Relays :
        (pc[r] = "done" /\ error[r] # "none") => ClientStatus(r) = 500

\* C9: each call has its own upstream channel and its sink holds chunks of
\* that channel only.
C9_NoCrossContamination ==
    /\ \A r1, r2 \in Relays :
        (r1 # r2 /\ upstream[r1] # 0) => upstream[r1] # upstream[r2]
    /\ \A r \in Relays :
        \A i \in 1..Len(sink[r]) : sink[r][i].src = upstream[r]

C9_Witness ==
    /\ req[1] = req[2]
    /\ \A r \in Relays : pc[r] = "write" /\ Len(sink[r]) > 0
    /\ chan[upstream[1]].body # chan[upstream[2]].body

\* C10: no invocation commits the 200 stream response and then produces
\* the 500 error response for the same request.
C10_OneResponse ==
    \A r \in Relays : ~(prepared[r] /\ result[r] = "Response500")

\* C8: a temperature or repetition_penalty value that float() rejects
\* raises nothing: the request goes on with the default for that parameter
\* and with the other parameter as it would be parsed on its own.
C8_MalformedNumberFallsBack ==
    \A r \in Relays :
        pc[r] # "idle" =>
            LET params == query[r]
                bad(key) == key \in DOMAIN params /\ ~ToFloat(params[key]).ok
                good(key) == key \in DOMAIN params /\ ToFloat(params[key]).ok
            IN /\ result[r] # "raised"
               /\ bad("temperature")
                    => req[r].temperature = DEFAULT_TEMPERATURE
               /\ bad("repetition_penalty")
                    => req[r].repetition_penalty = DEFAULT_REPETITION_PENALTY
               /\ good("temperature")
                    => req[r].temperature = ToFloat(params["temperature"]).val
               /\ good("repetition_penalty")
                    => req[r].repetition_penalty
                         = ToFloat(params["repetition_penalty"]).val
               /\ req[r].voice = DEFAULT_VOICE
               /\ req[r].api_url = DEFAULT_URL

C8_Witness ==
    /\ pc[1] = "done"
    /\ result[1] = "StreamResponse200"
    /\ "temperature" \in DOMAIN query[1]
    /\ query[1]["temperature"] = <<"1", ".", "x">>
    /\ req[1].repetition_penalty = 15 * (Scale \div 10)

\* C7: the buffered call returns exactly the body of a 2xx response,
\* tagged "wav", and returns nothing (None) when the upstream answers
\* non-2xx, cannot be reached, times out or ends before the body is whole.
C7_WholeBodyOrNothing ==
    tts.pc = "done" =>
        LET o == tts.outcome
        IN IF o.kind = "response" /\ o.status \in 200..299
              /\ o.received = Len(o.body)
           THEN tts.result = [ok |-> TRUE, ext |-> "wav", data |-> o.body]
           ELSE tts.result = None

C7_Witness ==
    /\ tts.pc = "done"
    /\ tts.outcome.status = 200
    /\ tts.outcome.body = <<1, 2>>
    /\ tts.outcome.received = 2
    /\ tts.result.data = <<1, 2>>

\* The value of the first dict of layers that holds key, else default.
RECURSIVE FirstPresent(_, _, _)
FirstPresent(layers, key, default) ==
    IF Len(layers) = 0 THEN default
    ELSE IF key \in DOMAIN Head(layers) THEN Head(layers)[key]
    ELSE FirstPresent(Tail(layers), key, default)

Resolved(post, override) ==
    LET all == <<override, entry.options, entry.data>>
    IN /\ post.json.reference_id
            = FirstPresent(all, CONF_VOICE, DEFAULT_VOICE)
       /\ post.json.temperature
            = FirstPresent(all, CONF_TEMPERATURE, DEFAULT_TEMPERATURE)
       /\ post.json.repetition_penalty
            = FirstPresent(all, CONF_REPETITION_PENALTY,
                           DEFAULT_REPETITION_PENALTY)
       /\ post.url
            = FirstPresent(<<entry.options, entry.data>>, CONF_API_URL,
                           DEFAULT_URL)

\* C6: on both entry points every parameter sent upstream is that of the
\* highest-precedence layer that holds it: override, option, config,
\* default.
C6_Precedence ==
    /\ tts.pc # "idle" => Resolved(tts.posted, tts.options)
    /\ (speak.pc = "called" /\ pc[1] \notin {"idle", "prepare"})
            => Resolved(posted[1], speak.data)

\* The entity's half of C6.
C6_EntityPrecedence == tts.pc # "idle" => Resolved(tts.posted, tts.options)

----------------------------------------------------------------------------
(* Properties of the payload *)

\* C11: the streaming field of the upstream payload is the streaming flag
\* of the resolved request: true on the streaming paths (the view's GET and
\* the engine's generator), and on the buffered path the value resolved
\* from the call's option, else the engine's configured value.
C11_StreamingFlag ==
    /\ \A r \in Relays :
        pc[r] \notin {"idle", "prepare"} => posted[r].json.streaming = TRUE
    /\ gen.pc # "idle" => gen.posted.json.streaming = TRUE
    /\ tts.pc # "idle" => tts.posted.json.streaming = tts.streaming

\* The streaming half of C11.
C11_StreamingModeTrue ==
    /\ \A r \in Relays :
        pc[r] \notin {"idle", "prepare"} => posted[r].json.streaming = TRUE
    /\ gen.pc # "idle" => gen.posted.json.streaming = TRUE

\* The buffered half of C11 where the resolved flag is false.
C11_BufferedFalse ==
    (tts.pc # "idle" /\ ~tts.streaming) => ~tts.posted.json.streaming

\* C12: the text of the upstream payload is the message the speak service
\* was called with, whatever the message (empty, or holding percent-escape
\* sequences), and no message is rejected.
C12_TextVerbatim ==
    (speak.pc = "called" /\ pc[1] # "idle") =>
        /\ result[1] # "raised"
        /\ pc[1] # "prepare" => posted[1].json.text = speak.message

\* C12 for the messages a second percent-decoding leaves as they are.
C12_PlainTextVerbatim ==
    (speak.pc = "called" /\ pc[1] \notin {"idle", "prepare"}
        /\ unquote(speak.message) = speak.message)
            => posted[1].json.text = speak.message

\* What the view sends for every message: the message decoded once more.
C12_TextDecodedTwice ==
    (speak.pc = "called" /\ pc[1] \notin {"idle", "prepare"})
        => posted[1].json.text = unquote(speak.message)

\* C12 for the empty message: it is sent upstream as it is.
C12_EmptyForwarded ==
    (speak.pc = "called" /\ pc[1] \notin {"idle", "prepare"}
        /\ speak.message = <<>>)
            => /\ posted[1].json.text = <<>>
               /\ result[1] # "raised"

=============================================================================
